---- MODULE Spec2Model ----
(***************************************************************************)
(* Model of the meme-generator service: the tool-protocol front-end        *)
(* (src/index.ts) and the REST front-end (src/app.ts).  Every invocation   *)
(* is a chain of continuations separated by the awaits on the four         *)
(* upstream endpoints (news search, template catalog, generative model,    *)
(* meme renderer).  One action models one continuation: everything the     *)
(* code does between two awaits.                                           *)
(*                                                                         *)
(* JavaScript values are modelled by tagged records, error messages by     *)
(* sequences of string fragments (a template literal is the concatenation  *)
(* of its pieces).                                                         *)
(***************************************************************************)
EXTENDS Integers, Sequences, FiniteSets, TLC

(***************************************************************************)
(* Bounds of the model.                                                    *)
(***************************************************************************)
NumInv == 2          \* invocation slots of the process
MaxArticles == 2     \* news results arrays are enumerated up to this length
MaxIndex == 2        \* requested articleIndex ranges over -1 .. MaxIndex
MaxTemplates == 2    \* length of the template catalog the renderer returns

(***************************************************************************)
(* Program constants.                                                      *)
(***************************************************************************)
NewsSize == 10          \* size: "10" query parameter of the news search
TemplateLimit == 100    \* json.data.memes.slice(0, 100)

Invocations == 1 .. NumInv
Tools ==
  {"fetch_indian_news", "get_meme_templates", "generate_meme_caption",
   "create_meme", "generate_news_meme"}
UnknownTool == "no_such_tool"
Endpoints == <<"news", "templates", "gemini", "imgflip">>

Min(a, b) == IF a < b THEN a ELSE b

(***************************************************************************)
(* Messages: sequences of string fragments.                                *)
(***************************************************************************)
RECURSIVE Join(_, _)
Join(parts, sep) ==
  IF Len(parts) = 0 THEN <<>>
  ELSE IF Len(parts) = 1 THEN <<parts[1]>>
  ELSE <<parts[1], sep>> \o Join(Tail(parts), sep)

Contains(msg, frag) == \E k \in 1 .. Len(msg) : msg[k] = frag

\* Results of the helper functions: a returned value or a thrown Error.
Return(v) == [ok |-> TRUE, val |-> v, err |-> <<>>]
Throw(msg) == [ok |-> FALSE, val |-> [t |-> "none"], err |-> msg]

(***************************************************************************)
(* process.env and validateEnvVars.  A variable that is unset or empty is  *)
(* falsy; the model writes "" for both.                                    *)
(***************************************************************************)
Required ==
  <<"NEWSDATA_API_KEY", "GEMINI_API_KEY", "IMGFLIP_USERNAME", "IMGFLIP_PASSWORD">>
RequiredKeys == {Required[k] : k \in 1 .. Len(Required)}
EnvValues == {"", "set"}
Envs == [RequiredKeys -> EnvValues]

\* A validation that stops at the first missing key.
FirstMissingKey(e) ==
  LET missing == SelectSeq(Required, LAMBDA key : e[key] = "")
  IN  SubSeq(missing, 1, Min(1, Len(missing)))

MissingKeys(e) == SelectSeq(Required, LAMBDA key : e[key] = "")

validateEnvVars(e) ==
  LET missing == MissingKeys(e)
  IN  IF Len(missing) > 0
      THEN Throw(<<"Missing required environment variables: ">> \o Join(missing, ", "))
      ELSE Return([t |-> "void"])

(***************************************************************************)
(* HTTP responses of the upstream services.  fetch() either rejects        *)
(* (transport failure) or resolves with a status; response.json() either   *)
(* rejects (the body is not JSON) or yields the parsed body.               *)
(***************************************************************************)
Rejected == [kind |-> "reject"]
HttpError(status, text) == [kind |-> "http", status |-> status, statusText |-> text]
NotJson == [kind |-> "notjson"]
Body(b) == [kind |-> "body", body |-> b]

FetchFailedMsg == <<"fetch failed">>
JsonSyntaxMsg == <<"Unexpected token < in JSON">>
NullReadMsg(prop) == <<"Cannot read properties of null (reading '", prop, "')">>
UndefReadMsg(prop) == <<"Cannot read properties of undefined (reading '", prop, "')">>

\* The part common to the four clients: the error thrown inside the try block
\* before the body is looked at, or NoError.
NoError == <<>>
TransportError(r, apiName) ==
  IF r.kind = "reject" THEN FetchFailedMsg
  ELSE IF r.kind = "http" THEN <<apiName, r.status, " ", r.statusText>>
  ELSE IF r.kind = "notjson" THEN JsonSyntaxMsg
  ELSE NoError

HttpErrors == {HttpError("500", "Internal Server Error")}

(***************************************************************************)
(* Arguments of a request.  A string argument that is absent or empty is   *)
(* falsy either way and is written ""; strings are sequences of characters *)
(* where the code looks inside them (topic.trim()).                        *)
(***************************************************************************)
Topics == {<<>>, <<" ">>, <<"c", "r">>, <<" ", "c">>}

RECURSIVE TrimStart(_)
TrimStart(s) == IF Len(s) > 0 /\ Head(s) = " " THEN TrimStart(Tail(s)) ELSE s

RECURSIVE TrimEnd(_)
TrimEnd(s) ==
  IF Len(s) > 0 /\ s[Len(s)] = " " THEN TrimEnd(SubSeq(s, 1, Len(s) - 1)) ELSE s

Trim(s) == TrimEnd(TrimStart(s))

\* articleIndex as the client sent it: absent, an integer, a non-integer number
\* (1.5) or a string that names a property of the array ("length").
IndexAbsent == [t |-> "absent", n |-> 0]
IndexInt(n) == [t |-> "int", n |-> n]
IndexFrac == [t |-> "frac", n |-> 1]
IndexProp == [t |-> "prop", n |-> 0]
ArticleIndexes ==
  {IndexAbsent, IndexFrac, IndexProp} \cup {IndexInt(n) : n \in -1 .. MaxIndex}

TemplatesAbsent == [t |-> "absent", ids |-> <<>>]
TemplatesArray(ids) == [t |-> "arr", ids |-> ids]
TemplateIdAbsent == [t |-> "absent", n |-> 0]
TemplateIdNum(n) == [t |-> "num", n |-> n]

NoArgs ==
  [present |-> TRUE, topic |-> <<>>, articleIndex |-> IndexAbsent,
   title |-> "", description |-> "", availableTemplates |-> TemplatesAbsent,
   templateId |-> TemplateIdAbsent, topText |-> "", bottomText |-> ""]

\* request.params.arguments left out altogether (undefined).
ArgsUndefined == [NoArgs EXCEPT !.present = FALSE]

ArgsOf(toolName) ==
  {ArgsUndefined} \cup
  CASE toolName = "fetch_indian_news" ->
         {[NoArgs EXCEPT !.topic = tp] : tp \in Topics}
    [] toolName = "generate_news_meme" ->
         {[NoArgs EXCEPT !.topic = tp, !.articleIndex = ix] :
            tp \in {<<>>, <<"c", "r">>}, ix \in ArticleIndexes}
    [] toolName = "generate_meme_caption" ->
         {[NoArgs EXCEPT !.title = ti, !.description = de, !.availableTemplates = av] :
            ti \in {"", "T1"}, de \in {"", "D1"},
            av \in {TemplatesAbsent, TemplatesArray(<<>>), TemplatesArray(<<101, 102>>)}}
    [] toolName = "create_meme" ->
         {[NoArgs EXCEPT !.templateId = id, !.topText = tt, !.bottomText = bt] :
            id \in {TemplateIdAbsent, TemplateIdNum(0), TemplateIdNum(101)},
            tt \in {"", "TOP"}, bt \in {"", "BOTTOM"}}
    [] OTHER -> {NoArgs}

(***************************************************************************)
(* Requests sent upstream.                                                 *)
(***************************************************************************)
NoRequest == [ep |-> "none"]

\* args?.topic || "" (undefined arguments give "" as well).
TopicOf(args) == args.topic

\* args?.articleIndex || 0: absent, 0 and NaN all become the number 0.
ArticleIndexOf(args) ==
  IF args.articleIndex.t = "absent" \/ args.articleIndex = IndexInt(0)
  THEN IndexInt(0)
  ELSE args.articleIndex

\* URLSearchParams of getIndianNewsByTopic; q only when topic.trim() is truthy.
NewsRequest(topic, e) ==
  [ep |-> "news", apikey |-> e["NEWSDATA_API_KEY"], country |-> "in",
   language |-> "en", size |-> NewsSize,
   hasQ |-> (Len(Trim(topic)) > 0),
   q |-> IF Len(Trim(topic)) > 0 THEN topic ELSE <<>>]

TemplatesRequest == [ep |-> "templates"]

\* The prompt names the article and availableTemplates.join(", ").
GeminiRequest(title, description, ids, e) ==
  [ep |-> "gemini", key |-> e["GEMINI_API_KEY"], title |-> title,
   description |-> description, ids |-> ids]

ImgflipRequest(templateId, topText, bottomText, e) ==
  [ep |-> "imgflip", template_id |-> templateId,
   username |-> e["IMGFLIP_USERNAME"], password |-> e["IMGFLIP_PASSWORD"],
   text0 |-> topText, text1 |-> bottomText]

(***************************************************************************)
(* News search.  An element of the results array is an article object or   *)
(* JSON null; a title or description that is missing or empty is "".       *)
(***************************************************************************)
Article(title, description) ==
  [t |-> "obj", title |-> title, description |-> description, n |-> 0]
JsonNullItem == [t |-> "null", title |-> "", description |-> "", n |-> 0]
Undefined == [t |-> "undefined", title |-> "", description |-> "", n |-> 0]
NumberValue(n) == [t |-> "num", title |-> "", description |-> "", n |-> n]

ArticleValues ==
  {Article("T1", "D1"), Article("T2", "D2"), Article("", "D1"), Article("T1", ""),
   JsonNullItem}

RECURSIVE SeqsUpTo(_, _)
SeqsUpTo(S, n) ==
  IF n = 0 THEN {<<>>}
  ELSE LET shorter == SeqsUpTo(S, n - 1)
       IN  shorter \cup {Append(s, x) : s \in {z \in shorter : Len(z) = n - 1}, x \in S}

\* The arrays the news search may answer with: every short array, and the
\* arrays of exactly size and size + 1 articles.
LongArray(n) == [k \in 1 .. n |-> Article("T1", "D1")]
ResultArrays ==
  SeqsUpTo(ArticleValues, MaxArticles) \cup {LongArray(NewsSize), LongArray(NewsSize + 1)}

\* The parsed body of the news search response.
NewsNull == [t |-> "null", results |-> [t |-> "absent", items |-> <<>>]]
NewsScalar == [t |-> "scalar", results |-> [t |-> "absent", items |-> <<>>]]
NewsObject(results) == [t |-> "obj", results |-> results]
ResultsAbsent == [t |-> "absent", items |-> <<>>]
ResultsString == [t |-> "string", items |-> <<>>]
ResultsArray(items) == [t |-> "arr", items |-> items]

NewsBodies ==
  {NewsNull, NewsScalar, NewsObject(ResultsAbsent), NewsObject(ResultsString)}
    \cup {NewsObject(ResultsArray(a)) : a \in ResultArrays}

NewsResponses == {Rejected, NotJson} \cup HttpErrors \cup {Body(b) : b \in NewsBodies}

\* The try block of getIndianNewsByTopic after the await.
NewsTry(r) ==
  LET early == TransportError(r, "NewsData API error: ")
  IN  IF early # NoError THEN Throw(early)
      ELSE IF r.body.t = "null" THEN Throw(NullReadMsg("results"))
      ELSE IF r.body.t # "obj" \/ r.body.results.t # "arr" THEN Return(<<>>)
      ELSE Return(r.body.results.items)

\* The catch block: every error is rethrown as "Failed to fetch news: ...".
getIndianNewsByTopic(r) ==
  LET res == NewsTry(r)
  IN  IF res.ok THEN res ELSE Throw(<<"Failed to fetch news: ">> \o res.err)

(***************************************************************************)
(* Template catalog.                                                       *)
(***************************************************************************)
\* An entry of data.memes as the service sends it (more fields than id, name).
Meme(k) == [id |-> 100 + k, name |-> "meme", url |-> "https://i.imgflip.com/x.jpg"]
Catalog(n) == [k \in 1 .. n |-> Meme(k)]

TemplatesNull == [t |-> "null", success |-> FALSE, hasData |-> FALSE, memes |-> <<>>]
TemplatesFailure == [t |-> "obj", success |-> FALSE, hasData |-> FALSE, memes |-> <<>>]
TemplatesNoData == [t |-> "obj", success |-> TRUE, hasData |-> FALSE, memes |-> <<>>]
TemplatesData(memes) == [t |-> "obj", success |-> TRUE, hasData |-> TRUE, memes |-> memes]

TemplatesBodies ==
  {TemplatesNull, TemplatesFailure, TemplatesNoData}
    \cup {TemplatesData(Catalog(n)) : n \in 0 .. MaxTemplates}

TemplatesResponses ==
  {Rejected, NotJson} \cup HttpErrors \cup {Body(b) : b \in TemplatesBodies}

\* json.data.memes.slice(0, 100).map(({ id, name }) => ({ id, name }))
TopTemplates(memes) ==
  [k \in 1 .. Min(Len(memes), TemplateLimit) |-> [id |-> memes[k].id, name |-> memes[k].name]]

TemplatesTry(r) ==
  LET early == TransportError(r, "Imgflip templates API error: ")
  IN  IF early # NoError THEN Throw(early)
      ELSE IF r.body.t = "null" THEN Throw(NullReadMsg("success"))
      ELSE IF ~r.body.success THEN Throw(<<"Imgflip API returned success: false">>)
      ELSE IF ~r.body.hasData THEN Throw(UndefReadMsg("memes"))
      ELSE Return(TopTemplates(r.body.memes))

fetchImgflipTemplates(r) ==
  LET res == TemplatesTry(r)
  IN  IF res.ok THEN res ELSE Throw(<<"Failed to fetch templates: ">> \o res.err)

\* templates.map((t) => t.id)
TemplateIds(templates) == [k \in 1 .. Len(templates) |-> templates[k].id]

(***************************************************************************)
(* Caption parser.  The model's output text is a sequence of tokens: code  *)
(* fences, white space, prose, and texts that are valid JSON (carrying the *)
(* value JSON.parse gives for them).                                       *)
(***************************************************************************)
ImageAbsent == [t |-> "absent", n |-> 0, nan |-> TRUE]
ImageNum(n) == [t |-> "num", n |-> n, nan |-> FALSE]
ImageNumericString(n) == [t |-> "str", n |-> n, nan |-> FALSE]
ImageWord == [t |-> "str", n |-> 0, nan |-> TRUE]        \* "abc"
ImageEmptyString == [t |-> "emptystr", n |-> 0, nan |-> FALSE]
ImageTrue == [t |-> "bool", n |-> 1, nan |-> FALSE]

TextAbsent == [t |-> "absent", s |-> "undefined"]
TextString(s) == [t |-> "str", s |-> s]
TextNumber(s) == [t |-> "num", s |-> s]                   \* 7, printed "7"
TextEmptyArray == [t |-> "arr", s |-> ""]                 \* [], printed ""

JsonNull == [t |-> "null", image |-> ImageAbsent, topText |-> TextAbsent, bottomText |-> TextAbsent]
JsonScalar == [t |-> "scalar", image |-> ImageAbsent, topText |-> TextAbsent, bottomText |-> TextAbsent]
JsonObject(image, top, bottom) ==
  [t |-> "obj", image |-> image, topText |-> top, bottomText |-> bottom]

\* JavaScript truthiness of a field value.
TruthyImage(v) ==
  CASE v.t = "absent" -> FALSE
    [] v.t = "emptystr" -> FALSE
    [] v.t = "num" -> v.n # 0
    [] OTHER -> TRUE
TruthyText(v) ==
  CASE v.t = "absent" -> FALSE
    [] v.t = "str" -> v.s # ""
    [] v.t = "num" -> v.s # "0"
    [] OTHER -> TRUE

FenceJson == [k |-> "fencejson", v |-> JsonNull]     \* ```json
Fence == [k |-> "fence", v |-> JsonNull]             \* ```
FenceLang == [k |-> "fencelang", v |-> JsonNull]     \* ```javascript
Space == [k |-> "ws", v |-> JsonNull]
Prose == [k |-> "prose", v |-> JsonNull]
JsonText(v) == [k |-> "json", v |-> v]

\* .replace(/```json/g, "")
StripJsonFences(text) == SelectSeq(text, LAMBDA tok : tok.k # "fencejson")

\* .replace(/```/g, ""): a plain fence disappears, ```javascript leaves its word.
StripFences(text) ==
  LET kept == SelectSeq(text, LAMBDA tok : tok.k # "fence")
  IN  [j \in 1 .. Len(kept) |-> IF kept[j].k = "fencelang" THEN Prose ELSE kept[j]]

RECURSIVE TrimTokensStart(_)
TrimTokensStart(text) ==
  IF Len(text) > 0 /\ Head(text).k = "ws" THEN TrimTokensStart(Tail(text)) ELSE text

RECURSIVE TrimTokensEnd(_)
TrimTokensEnd(text) ==
  IF Len(text) > 0 /\ text[Len(text)].k = "ws"
  THEN TrimTokensEnd(SubSeq(text, 1, Len(text) - 1))
  ELSE text

Cleaned(text) == TrimTokensEnd(TrimTokensStart(StripFences(StripJsonFences(text))))

\* JSON.parse: white space around the one value is allowed, anything else throws.
JsonParse(text) ==
  LET solid == SelectSeq(text, LAMBDA tok : tok.k # "ws")
  IN  IF Len(solid) = 1 /\ solid[1].k = "json"
      THEN Return(solid[1].v)
      ELSE Throw(JsonSyntaxMsg)

NullCaption == [t |-> "null", image |-> 0, topText |-> "", bottomText |-> ""]
Caption(image, top, bottom) ==
  [t |-> "caption", image |-> image, topText |-> top, bottomText |-> bottom]

\* The try block of parseMemeCaption.
ParseTry(text) ==
  LET parsed == JsonParse(Cleaned(text))
  IN  IF ~parsed.ok THEN parsed
      ELSE LET json == parsed.val
           IN  IF json.t = "null" THEN Throw(NullReadMsg("image"))
               ELSE IF ~TruthyImage(json.image) \/ ~TruthyText(json.topText)
                         \/ ~TruthyText(json.bottomText)
               THEN Return(NullCaption)
               ELSE IF json.image.nan THEN Return(NullCaption)
               ELSE Return(Caption(json.image.n, json.topText.s, json.bottomText.s))

\* A parser without its catch block: what the try block throws reaches the caller.
parseMemeCaptionUncaught(text) == ParseTry(text)

\* The catch block returns null for every error.
parseMemeCaption(text) ==
  LET res == ParseTry(text)
  IN  IF res.ok THEN res ELSE Return(NullCaption)

(***************************************************************************)
(* Generative model.                                                       *)
(***************************************************************************)
GeminiNull == [t |-> "null", hasText |-> FALSE, text |-> <<>>]
GeminiNoCandidates == [t |-> "obj", hasText |-> FALSE, text |-> <<>>]
GeminiText(text) == [t |-> "obj", hasText |-> TRUE, text |-> text]

GoodJson(id) == JsonObject(ImageNum(id), TextString("TOP"), TextString("BOTTOM"))

GeminiTexts ==
  {<<>>,
   <<Prose>>,
   <<Prose, JsonText(GoodJson(101))>>,
   <<JsonText(GoodJson(101))>>,
   <<JsonText(GoodJson(999))>>,
   <<FenceJson, Space, JsonText(GoodJson(102)), Space, Fence>>,
   <<Fence, Space, JsonText(GoodJson(101)), Space, Fence, Space>>,
   <<FenceLang, Space, JsonText(GoodJson(101)), Space, Fence>>,
   <<JsonText(JsonNull)>>,
   <<JsonText(JsonScalar)>>,
   <<JsonText(JsonObject(ImageAbsent, TextString("TOP"), TextString("BOTTOM")))>>,
   <<JsonText(JsonObject(ImageNum(0), TextString("TOP"), TextString("BOTTOM")))>>,
   <<JsonText(JsonObject(ImageNumericString(101), TextNumber("7"), TextString("BOTTOM")))>>,
   <<JsonText(JsonObject(ImageWord, TextString("TOP"), TextString("BOTTOM")))>>,
   <<JsonText(JsonObject(ImageEmptyString, TextString("TOP"), TextString("BOTTOM")))>>,
   <<JsonText(JsonObject(ImageTrue, TextString("TOP"), TextString("BOTTOM")))>>,
   <<JsonText(JsonObject(ImageNum(101), TextString(""), TextString("BOTTOM")))>>,
   <<JsonText(JsonObject(ImageNum(101), TextString("TOP"), TextAbsent))>>,
   <<JsonText(JsonObject(ImageNum(101), TextEmptyArray, TextString("BOTTOM")))>>}

GeminiBodies == {GeminiNull, GeminiNoCandidates} \cup {GeminiText(x) : x \in GeminiTexts}

GeminiResponses == {Rejected, NotJson} \cup HttpErrors \cup {Body(b) : b \in GeminiBodies}

\* data?.candidates?.[0]?.content?.parts?.[0]?.text || ""
OutputOf(body) == IF body.hasText THEN body.text ELSE <<>>

CaptionTry(r) ==
  LET early == TransportError(r, "Gemini API error: ")
  IN  IF early # NoError THEN Throw(early)
      ELSE IF Len(OutputOf(r.body)) = 0 THEN Return(NullCaption)
      ELSE parseMemeCaption(OutputOf(r.body))

generateCaption(r) ==
  LET res == CaptionTry(r)
  IN  IF res.ok THEN res ELSE Throw(<<"Failed to generate caption: ">> \o res.err)

(***************************************************************************)
(* Meme renderer.                                                          *)
(***************************************************************************)
JsNull == [t |-> "null", s |-> ""]
JsString(s) == [t |-> "str", s |-> s]

ImgflipNull == [t |-> "null", success |-> FALSE, error_message |-> "", hasData |-> FALSE, url |-> ""]
ImgflipFailure(m) == [t |-> "obj", success |-> FALSE, error_message |-> m, hasData |-> FALSE, url |-> ""]
ImgflipNoData == [t |-> "obj", success |-> TRUE, error_message |-> "", hasData |-> FALSE, url |-> ""]
ImgflipUrl(u) == [t |-> "obj", success |-> TRUE, error_message |-> "", hasData |-> TRUE, url |-> u]

ImgflipBodies ==
  {ImgflipNull, ImgflipFailure("No texts specified"), ImgflipNoData,
   ImgflipUrl(""), ImgflipUrl("https://i.imgflip.com/1.jpg"),
   ImgflipUrl("https://i.imgflip.com/2.jpg")}

ImgflipResponses ==
  {Rejected, NotJson} \cup HttpErrors \cup {Body(b) : b \in ImgflipBodies}

\* data.data?.url || null
UrlOf(body) == IF body.hasData /\ body.url # "" THEN JsString(body.url) ELSE JsNull

\* MemeTry without the check of the service's own success flag.
MemeTryIgnoringSuccess(r) ==
  LET early == TransportError(r, "Imgflip API error: ")
  IN  IF early # NoError THEN Throw(early)
      ELSE IF r.body.t = "null" THEN Throw(NullReadMsg("success"))
      ELSE Return(UrlOf(r.body))

MemeTry(r) ==
  LET early == TransportError(r, "Imgflip API error: ")
  IN  IF early # NoError THEN Throw(early)
      ELSE IF r.body.t = "null" THEN Throw(NullReadMsg("success"))
      ELSE IF ~r.body.success THEN Throw(<<"Imgflip API error: ", r.body.error_message>>)
      ELSE Return(UrlOf(r.body))

generateMeme(r) ==
  LET res == MemeTry(r)
  IN  IF res.ok THEN res ELSE Throw(<<"Failed to generate meme: ">> \o res.err)

(***************************************************************************)
(* What a continuation decides: to issue the next upstream call (and       *)
(* suspend on it) or to finish with a returned payload or a thrown error.  *)
(* inner is the error raised inside the try block of the workflow, before  *)
(* its catch block wraps it.                                               *)
(***************************************************************************)
NoLocals ==
  [article |-> Undefined, templateIds |-> <<>>, caption |-> NullCaption]

Call(req, loc) ==
  [kind |-> "call", request |-> req, locals |-> loc,
   result |-> Return([t |-> "void"]), inner |-> NoError]
Finish(res) ==
  [kind |-> "finish", request |-> NoRequest, locals |-> NoLocals,
   result |-> res, inner |-> NoError]

(***************************************************************************)
(* The handlers up to their first await.  fe is the front-end: index.ts    *)
(* validates the environment inside each handler (handleGetTemplates does  *)
(* not), app.ts validates once in handleToolRequest.                       *)
(***************************************************************************)
ValidateInHandler(fe, e) ==
  IF fe = "index" THEN validateEnvVars(e) ELSE Return([t |-> "void"])

DestructureMsg == <<"Cannot destructure property 'title' of 'args' as it is undefined.">>

handleFetchNews(fe, a, e) ==
  LET v == ValidateInHandler(fe, e)
  IN  IF ~v.ok THEN Finish(v)
      ELSE Call(NewsRequest(TopicOf(a), e), NoLocals)

handleGetTemplates(fe, a, e) == Call(TemplatesRequest, NoLocals)

handleGenerateCaption(fe, a, e) ==
  LET v == ValidateInHandler(fe, e)
  IN  IF ~v.ok THEN Finish(v)
      ELSE IF ~a.present THEN Finish(Throw(DestructureMsg))
      ELSE IF a.title = "" \/ a.description = "" \/ a.availableTemplates.t = "absent"
      THEN Finish(Throw(<<"Missing required parameters: title, description, availableTemplates">>))
      ELSE Call(GeminiRequest(a.title, a.description, a.availableTemplates.ids, e), NoLocals)

handleCreateMeme(fe, a, e) ==
  LET v == ValidateInHandler(fe, e)
  IN  IF ~v.ok THEN Finish(v)
      ELSE IF ~a.present THEN Finish(Throw(DestructureMsg))
      ELSE IF a.templateId.t = "absent" \/ a.templateId.n = 0
                \/ a.topText = "" \/ a.bottomText = ""
      THEN Finish(Throw(<<"Missing required parameters: templateId, topText, bottomText">>))
      ELSE Call(ImgflipRequest(a.templateId.n, a.topText, a.bottomText, e), NoLocals)

handleGenerateNewsMeme(fe, a, e) ==
  LET v == ValidateInHandler(fe, e)
  IN  IF ~v.ok THEN Finish(v)
      ELSE Call(NewsRequest(TopicOf(a), e), NoLocals)

\* The switch on the tool name.
SwitchTool(fe, toolName, a, e) ==
  CASE toolName = "fetch_indian_news" -> handleFetchNews(fe, a, e)
    [] toolName = "get_meme_templates" -> handleGetTemplates(fe, a, e)
    [] toolName = "generate_meme_caption" -> handleGenerateCaption(fe, a, e)
    [] toolName = "create_meme" -> handleCreateMeme(fe, a, e)
    [] toolName = "generate_news_meme" -> handleGenerateNewsMeme(fe, a, e)
    [] OTHER -> Finish(Throw(<<"Unknown tool: ", toolName>>))

\* index.ts: the CallToolRequestSchema handler.
CallToolRequest(toolName, a, e) == SwitchTool("index", toolName, a, e)

\* app.ts: handleToolRequest validates the environment before the switch.
handleToolRequest(toolName, a, e) ==
  LET v == validateEnvVars(e)
  IN  IF ~v.ok THEN Finish(v) ELSE SwitchTool("app", toolName, a, e)

Begin(fe, toolName, a, e) ==
  IF fe = "index" THEN CallToolRequest(toolName, a, e)
  ELSE handleToolRequest(toolName, a, e)

(***************************************************************************)
(* The rest of the one-call handlers, after their await.                   *)
(***************************************************************************)
FetchNewsDone(r) ==
  LET news == getIndianNewsByTopic(r)
  IN  IF ~news.ok THEN Finish(news)
      ELSE Finish(Return([success |-> TRUE, count |-> Len(news.val), articles |-> news.val]))

GetTemplatesDone(r) ==
  LET templates == fetchImgflipTemplates(r)
  IN  IF ~templates.ok THEN Finish(templates)
      ELSE Finish(Return([success |-> TRUE, count |-> Len(templates.val),
                          templates |-> templates.val]))

GenerateCaptionDone(r) ==
  LET caption == generateCaption(r)
  IN  IF ~caption.ok THEN Finish(caption)
      ELSE Finish(Return([success |-> TRUE, caption |-> caption.val]))

CreateMemeDone(r) ==
  LET memeUrl == generateMeme(r)
  IN  IF ~memeUrl.ok THEN Finish(memeUrl)
      ELSE Finish(Return([success |-> TRUE, memeUrl |-> memeUrl.val]))

(***************************************************************************)
(* handleGenerateNewsMeme after each await.                                *)
(***************************************************************************)
WorkflowPrefix == "Failed to generate news meme: "

\* A catch block that drops the message it caught.
WorkflowErrorLosingInner(inner) == <<WorkflowPrefix, "Unknown error">>

\* The catch block of handleGenerateNewsMeme.
WorkflowError(inner) == <<WorkflowPrefix>> \o inner

WorkflowFail(inner) ==
  [Finish(Throw(WorkflowError(inner))) EXCEPT !.inner = inner]

\* news[articleIndex]
ArrayGet(news, idx) ==
  CASE idx.t = "int" /\ 0 <= idx.n /\ idx.n < Len(news) -> news[idx.n + 1]
    [] idx.t = "prop" -> NumberValue(Len(news))
    [] OTHER -> Undefined

TruthyItem(v) ==
  CASE v.t \in {"undefined", "null"} -> FALSE
    [] v.t = "num" -> v.n # 0
    [] OTHER -> TRUE

\* The workflow without its check for an empty list.
EmptyNewsCheckMissing(news) == Return([t |-> "void"])

\* if (news.length === 0) throw ...
EmptyNewsCheck(news) ==
  IF Len(news) = 0 THEN Throw(<<"No news articles found">>) ELSE Return([t |-> "void"])

\* The check without its !article guard: reading .title of undefined throws.
ArticleCheckUnguarded(article) ==
  IF article.t = "undefined" THEN Throw(UndefReadMsg("title"))
  ELSE IF article.t = "null" THEN Throw(NullReadMsg("title"))
  ELSE IF article.title = "" \/ article.description = ""
  THEN Throw(<<"Selected article missing title or description">>)
  ELSE Return(article)

\* if (!article || !article.title || !article.description) throw ...
ArticleCheck(article) ==
  IF ~TruthyItem(article) \/ article.title = "" \/ article.description = ""
  THEN Throw(<<"Selected article missing title or description">>)
  ELSE Return(article)

\* A workflow that asks the news search again when the fetch failed.
WorkflowAfterNewsRetrying(r, a, e) ==
  LET news == getIndianNewsByTopic(r)
  IN  IF ~news.ok THEN Call(NewsRequest(TopicOf(a), e), NoLocals)
      ELSE IF ~EmptyNewsCheck(news.val).ok THEN WorkflowFail(EmptyNewsCheck(news.val).err)
      ELSE LET article == ArticleCheck(ArrayGet(news.val, ArticleIndexOf(a)))
           IN  IF ~article.ok THEN WorkflowFail(article.err)
               ELSE Call(TemplatesRequest, [NoLocals EXCEPT !.article = article.val])

WorkflowAfterNews(r, a, e) ==
  LET news == getIndianNewsByTopic(r)
  IN  IF ~news.ok THEN WorkflowFail(news.err)
      ELSE IF ~EmptyNewsCheck(news.val).ok THEN WorkflowFail(EmptyNewsCheck(news.val).err)
      ELSE LET article == ArticleCheck(ArrayGet(news.val, ArticleIndexOf(a)))
           IN  IF ~article.ok THEN WorkflowFail(article.err)
               ELSE Call(TemplatesRequest, [NoLocals EXCEPT !.article = article.val])

\* A workflow that goes on without template ids when the catalog fetch failed.
WorkflowAfterTemplatesLenient(r, loc, e) ==
  LET templates == fetchImgflipTemplates(r)
      templateIds == IF templates.ok THEN TemplateIds(templates.val) ELSE <<>>
  IN  Call(GeminiRequest(loc.article.title, loc.article.description, templateIds, e),
           [loc EXCEPT !.templateIds = templateIds])

WorkflowAfterTemplates(r, loc, e) ==
  LET templates == fetchImgflipTemplates(r)
  IN  IF ~templates.ok THEN WorkflowFail(templates.err)
      ELSE LET templateIds == TemplateIds(templates.val)
           IN  Call(GeminiRequest(loc.article.title, loc.article.description, templateIds, e),
                    [loc EXCEPT !.templateIds = templateIds])

\* The workflow without its if (!caption): reading caption.image of null throws.
WorkflowAfterCaptionUnchecked(r, loc, e) ==
  LET caption == generateCaption(r)
  IN  IF ~caption.ok THEN WorkflowFail(caption.err)
      ELSE IF caption.val.t = "null" THEN WorkflowFail(NullReadMsg("image"))
      ELSE Call(ImgflipRequest(caption.val.image, caption.val.topText,
                               caption.val.bottomText, e),
                [loc EXCEPT !.caption = caption.val])

\* A workflow that does verify the chosen template against the ids it offered.
WorkflowAfterCaptionVerifying(r, loc, e) ==
  LET caption == generateCaption(r)
  IN  IF ~caption.ok THEN WorkflowFail(caption.err)
      ELSE IF caption.val.t = "null" THEN WorkflowFail(<<"Failed to generate meme caption">>)
      ELSE IF \A k \in 1 .. Len(loc.templateIds) : loc.templateIds[k] # caption.val.image
      THEN WorkflowFail(<<"Template not offered">>)
      ELSE Call(ImgflipRequest(caption.val.image, caption.val.topText,
                               caption.val.bottomText, e),
                [loc EXCEPT !.caption = caption.val])

WorkflowAfterCaption(r, loc, e) ==
  LET caption == generateCaption(r)
  IN  IF ~caption.ok THEN WorkflowFail(caption.err)
      ELSE IF caption.val.t = "null" THEN WorkflowFail(<<"Failed to generate meme caption">>)
      ELSE Call(ImgflipRequest(caption.val.image, caption.val.topText,
                               caption.val.bottomText, e),
                [loc EXCEPT !.caption = caption.val])

WorkflowAfterMeme(r, loc) ==
  LET memeUrl == generateMeme(r)
  IN  IF ~memeUrl.ok THEN WorkflowFail(memeUrl.err)
      ELSE Finish(Return([success |-> TRUE,
                          article |-> [title |-> loc.article.title,
                                       description |-> loc.article.description],
                          caption |-> loc.caption,
                          memeUrl |-> memeUrl.val]))

(***************************************************************************)
(* What the caller receives.  index.ts answers with a content list whose   *)
(* text is the JSON of the payload, or "Error: " and the message; app.ts   *)
(* answers with the payload as JSON, or status 500 and {success: false,    *)
(* error}.  JSON.stringify is kept as the payload it prints: every payload *)
(* here is made of JSON values.                                            *)
(***************************************************************************)
NoResponse == [t |-> "none"]
NoPayload == [t |-> "none"]

IndexResponse(result) ==
  [t |-> "mcp",
   content |-> <<[type |-> "text",
                  text |-> IF result.ok
                           THEN [fmt |-> "json", parts |-> <<>>, value |-> result.val]
                           ELSE [fmt |-> "plain", parts |-> <<"Error: ">> \o result.err,
                                 value |-> NoPayload]]>>]

AppResponse(result) ==
  IF result.ok
  THEN [t |-> "http", status |-> 200, json |-> result.val]
  ELSE [t |-> "http", status |-> 500, json |-> [success |-> FALSE, error |-> result.err]]

\* A catch block that logs the error and returns nothing.
RespondDroppingFailures(fe, result) ==
  IF ~result.ok THEN NoResponse
  ELSE IF fe = "index" THEN IndexResponse(result) ELSE AppResponse(result)

Respond(fe, result) ==
  IF fe = "index" THEN IndexResponse(result) ELSE AppResponse(result)

(***************************************************************************)
(* State.                                                                  *)
(***************************************************************************)
VARIABLES
  env,        \* process.env, the only state the invocations share
  frontend,   \* per invocation: the front-end that received it
  tool,       \* per invocation: the tool name
  args,       \* per invocation: the arguments
  pc,         \* per invocation: "idle", "start", "await" or "done"
  inflight,   \* per invocation: the upstream request it is suspended on
  locals,     \* per invocation: the locals of handleGenerateNewsMeme
  response,   \* per invocation: what the caller received
  log,        \* per invocation: history of its upstream calls and their returns
  stepError   \* per invocation: the error raised inside the workflow's try block

vars ==
  <<env, frontend, tool, args, pc, inflight, locals, response, log, stepError>>

CallEvent(req) ==
  [ev |-> "call", ep |-> req.ep, ok |-> TRUE, req |-> req, resp |-> Rejected]
ReturnEvent(ep, ok, r) ==
  [ev |-> "ret", ep |-> ep, ok |-> ok, req |-> NoRequest, resp |-> r]

\* Every request a front-end can receive.  The REST routes fix the tool name and
\* express.json() supplies a body; the tool protocol lets a client name any tool
\* and leave the arguments out.
Requests ==
  UNION {{[frontend |-> "index", tool |-> tn, args |-> a] : a \in ArgsOf(tn)} :
         tn \in Tools \cup {UnknownTool}}
  \cup
  UNION {{[frontend |-> "app", tool |-> tn, args |-> a] : a \in ArgsOf(tn) \ {ArgsUndefined}} :
         tn \in Tools}

\* The invocations in Started have been received; the other slots stay idle.
InitWith(Started) ==
  /\ env \in Envs
  /\ \E rq \in [Started -> Requests] :
       /\ frontend = [i \in Invocations |-> IF i \in Started THEN rq[i].frontend ELSE "index"]
       /\ tool = [i \in Invocations |-> IF i \in Started THEN rq[i].tool ELSE UnknownTool]
       /\ args = [i \in Invocations |-> IF i \in Started THEN rq[i].args ELSE NoArgs]
  /\ pc = [i \in Invocations |-> IF i \in Started THEN "start" ELSE "idle"]
  /\ inflight = [i \in Invocations |-> NoRequest]
  /\ locals = [i \in Invocations |-> NoLocals]
  /\ response = [i \in Invocations |-> NoResponse]
  /\ log = [i \in Invocations |-> <<>>]
  /\ stepError = [i \in Invocations |-> NoError]

Init == InitWith({1})

\* A handler that keeps its locals in a field of the server object: every
\* invocation in flight sees the last write.
ApplySharedLocals(i, out, before) ==
  /\ UNCHANGED <<env, frontend, tool, args>>
  /\ IF out.kind = "call"
     THEN /\ pc' = [pc EXCEPT ![i] = "await"]
          /\ inflight' = [inflight EXCEPT ![i] = out.request]
          /\ locals' = [j \in Invocations |-> out.locals]
          /\ log' = [log EXCEPT ![i] = log[i] \o before \o <<CallEvent(out.request)>>]
          /\ UNCHANGED <<response, stepError>>
     ELSE /\ pc' = [pc EXCEPT ![i] = "done"]
          /\ inflight' = [inflight EXCEPT ![i] = NoRequest]
          /\ locals' = [locals EXCEPT ![i] = NoLocals]
          /\ log' = [log EXCEPT ![i] = log[i] \o before]
          /\ response' = [response EXCEPT ![i] = Respond(frontend[i], out.result)]
          /\ stepError' = [stepError EXCEPT ![i] = out.inner]

\* Carry out what a continuation decided; before is the return of the call the
\* invocation was suspended on (none for the first continuation).
Apply(i, out, before) ==
  /\ UNCHANGED <<env, frontend, tool, args>>
  /\ IF out.kind = "call"
     THEN /\ pc' = [pc EXCEPT ![i] = "await"]
          /\ inflight' = [inflight EXCEPT ![i] = out.request]
          /\ locals' = [locals EXCEPT ![i] = out.locals]
          /\ log' = [log EXCEPT ![i] = log[i] \o before \o <<CallEvent(out.request)>>]
          /\ UNCHANGED <<response, stepError>>
     ELSE /\ pc' = [pc EXCEPT ![i] = "done"]
          /\ inflight' = [inflight EXCEPT ![i] = NoRequest]
          /\ locals' = [locals EXCEPT ![i] = NoLocals]
          /\ log' = [log EXCEPT ![i] = log[i] \o before]
          /\ response' = [response EXCEPT ![i] = Respond(frontend[i], out.result)]
          /\ stepError' = [stepError EXCEPT ![i] = out.inner]

\* The request handler runs up to its first await, or to its response.
Dispatch(i) ==
  /\ pc[i] = "start"
  /\ Apply(i, Begin(frontend[i], tool[i], args[i], env), <<>>)

\* The responses an endpoint can give.
ResponsesOf(ep) ==
  CASE ep = "news" -> NewsResponses
    [] ep = "templates" -> TemplatesResponses
    [] ep = "gemini" -> GeminiResponses
    [] ep = "imgflip" -> ImgflipResponses

\* The code of tool toolName after its await of endpoint ep, given the
\* response r and the handler's locals loc.
Continue(toolName, a, e, ep, loc, r) ==
  LET workflow == toolName = "generate_news_meme"
  IN  CASE ep = "news" ->
             IF workflow THEN WorkflowAfterNews(r, a, e) ELSE FetchNewsDone(r)
        [] ep = "templates" ->
             IF workflow THEN WorkflowAfterTemplates(r, loc, e) ELSE GetTemplatesDone(r)
        [] ep = "gemini" ->
             IF workflow THEN WorkflowAfterCaption(r, loc, e) ELSE GenerateCaptionDone(r)
        [] ep = "imgflip" ->
             IF workflow THEN WorkflowAfterMeme(r, loc) ELSE CreateMemeDone(r)

\* The code after the await invocation i is suspended on.
Resume(i, r) == Continue(tool[i], args[i], env, inflight[i].ep, locals[i], r)

\* The log entry of a returned call: whether the client function threw.
Returned(ep, r) ==
  ReturnEvent(ep,
              CASE ep = "news" -> getIndianNewsByTopic(r).ok
                [] ep = "templates" -> fetchImgflipTemplates(r).ok
                [] ep = "gemini" -> generateCaption(r).ok
                [] ep = "imgflip" -> generateMeme(r).ok,
              r)

\* The news search answers and the handler that awaited it resumes.
NewsResponse(i) ==
  /\ pc[i] = "await"
  /\ inflight[i].ep = "news"
  /\ \E r \in NewsResponses : Apply(i, Resume(i, r), <<Returned("news", r)>>)

TemplatesResponse(i) ==
  /\ pc[i] = "await"
  /\ inflight[i].ep = "templates"
  /\ \E r \in TemplatesResponses : Apply(i, Resume(i, r), <<Returned("templates", r)>>)

GeminiResponse(i) ==
  /\ pc[i] = "await"
  /\ inflight[i].ep = "gemini"
  /\ \E r \in GeminiResponses : Apply(i, Resume(i, r), <<Returned("gemini", r)>>)

ImgflipResponse(i) ==
  /\ pc[i] = "await"
  /\ inflight[i].ep = "imgflip"
  /\ \E r \in ImgflipResponses : Apply(i, Resume(i, r), <<Returned("imgflip", r)>>)

Next ==
  \E i \in Invocations :
    \/ Dispatch(i)
    \/ NewsResponse(i)
    \/ TemplatesResponse(i)
    \/ GeminiResponse(i)
    \/ ImgflipResponse(i)

Spec == Init /\ [][Next]_vars

(***************************************************************************)
(* The two front-ends side by side: invocation 1 arrives at index.ts,      *)
(* invocation 2 at app.ts, with the same tool, arguments and environment,  *)
(* and each upstream call of one gets the response the other gets.         *)
(***************************************************************************)
Pair == {1, 2}

InitPair ==
  /\ env \in Envs
  /\ \E rq \in {q \in Requests : q.frontend = "app"} :
       /\ tool = [i \in Invocations |-> IF i \in Pair THEN rq.tool ELSE UnknownTool]
       /\ args = [i \in Invocations |-> IF i \in Pair THEN rq.args ELSE NoArgs]
  /\ frontend = [i \in Invocations |-> IF i = 2 THEN "app" ELSE "index"]
  /\ pc = [i \in Invocations |-> IF i \in Pair THEN "start" ELSE "idle"]
  /\ inflight = [i \in Invocations |-> NoRequest]
  /\ locals = [i \in Invocations |-> NoLocals]
  /\ response = [i \in Invocations |-> NoResponse]
  /\ log = [i \in Invocations |-> <<>>]
  /\ stepError = [i \in Invocations |-> NoError]

\* Apply for several invocations in one step: out[j] is what the continuation
\* of j decided, before[j] the return of the call j was suspended on.
ApplyAll(S, out, before) ==
  LET calls(j) == out[j].kind = "call"
  IN  /\ UNCHANGED <<env, frontend, tool, args>>
      /\ pc' = [j \in Invocations |->
                  IF j \notin S THEN pc[j] ELSE IF calls(j) THEN "await" ELSE "done"]
      /\ inflight' = [j \in Invocations |-> IF j \in S THEN out[j].request ELSE inflight[j]]
      /\ locals' = [j \in Invocations |-> IF j \in S THEN out[j].locals ELSE locals[j]]
      /\ log' = [j \in Invocations |->
                   IF j \notin S THEN log[j]
                   ELSE log[j] \o before[j]
                          \o (IF calls(j) THEN <<CallEvent(out[j].request)>> ELSE <<>>)]
      /\ response' = [j \in Invocations |->
                        IF j \in S /\ ~calls(j)
                        THEN Respond(frontend[j], out[j].result) ELSE response[j]]
      /\ stepError' = [j \in Invocations |->
                         IF j \in S /\ ~calls(j) THEN out[j].inner ELSE stepError[j]]

PairDispatch ==
  /\ \A j \in Pair : pc[j] = "start"
  /\ ApplyAll(Pair, [j \in Pair |-> Begin(frontend[j], tool[j], args[j], env)],
              [j \in Pair |-> <<>>])

\* Both wait for the same endpoint: it gives both the same response.
PairResponse ==
  /\ \A j \in Pair : pc[j] = "await"
  /\ inflight[1].ep = inflight[2].ep
  /\ \E r \in ResponsesOf(inflight[1].ep) :
       ApplyAll(Pair, [j \in Pair |-> Resume(j, r)],
                [j \in Pair |-> <<Returned(inflight[j].ep, r)>>])

\* One front-end waits for a call the other did not make.
SoloResponse ==
  \E i \in Pair :
    /\ pc[i] = "await"
    /\ \E j \in Pair \ {i} : pc[j] # "await" \/ inflight[j].ep # inflight[i].ep
    /\ \E r \in ResponsesOf(inflight[i].ep) :
         ApplyAll({i}, [j \in {i} |-> Resume(j, r)],
                  [j \in {i} |-> <<Returned(inflight[j].ep, r)>>])

NextPair == PairDispatch \/ PairResponse \/ SoloResponse

SpecPair == InitPair /\ [][NextPair]_vars

(***************************************************************************)
(* Two invocations of generate_news_meme in flight at once, on either      *)
(* front-end, their awaits interleaved in every order.  Each call gets a   *)
(* response of its own, drawn from a few responses that differ in their    *)
(* article, template list, caption and URL.                                *)
(***************************************************************************)
\* A generate_news_meme request on either front-end, for the first or the
\* second article.
WorkflowRequests ==
  {q \in Requests :
     /\ q.tool = "generate_news_meme"
     /\ q.args.present
     /\ q.args.topic = <<>>
     /\ q.args.articleIndex \in {IndexAbsent, IndexInt(1)}}

ConcResponsesOf(ep) ==
  ResponsesOf(ep) \cap
    {Rejected,
     Body(NewsObject(ResultsArray(<<Article("T1", "D1"), Article("T2", "D2")>>))),
     Body(NewsObject(ResultsArray(<<Article("T2", "D2"), Article("T1", "D1")>>))),
     Body(TemplatesData(Catalog(1))),
     Body(TemplatesData(Catalog(2))),
     Body(GeminiText(<<JsonText(GoodJson(101))>>)),
     Body(GeminiText(<<JsonText(GoodJson(999))>>)),
     Body(ImgflipUrl("https://i.imgflip.com/1.jpg")),
     Body(ImgflipUrl("https://i.imgflip.com/2.jpg"))}

InitConc ==
  /\ env = [key \in RequiredKeys |-> "set"]
  /\ \E rq \in [Pair -> WorkflowRequests] :
       /\ frontend = [i \in Invocations |-> IF i \in Pair THEN rq[i].frontend ELSE "index"]
       /\ tool = [i \in Invocations |-> IF i \in Pair THEN rq[i].tool ELSE UnknownTool]
       /\ args = [i \in Invocations |-> IF i \in Pair THEN rq[i].args ELSE NoArgs]
  /\ pc = [i \in Invocations |-> IF i \in Pair THEN "start" ELSE "idle"]
  /\ inflight = [i \in Invocations |-> NoRequest]
  /\ locals = [i \in Invocations |-> NoLocals]
  /\ response = [i \in Invocations |-> NoResponse]
  /\ log = [i \in Invocations |-> <<>>]
  /\ stepError = [i \in Invocations |-> NoError]

\* An upstream service answers the call of invocation i, whatever the other
\* invocations are doing.
ConcResponse(i) ==
  /\ pc[i] = "await"
  /\ \E r \in ConcResponsesOf(inflight[i].ep) :
       Apply(i, Resume(i, r), <<Returned(inflight[i].ep, r)>>)

NextConc == \E i \in Invocations : Dispatch(i) \/ ConcResponse(i)

SpecConc == InitConc /\ [][NextConc]_vars

(***************************************************************************)
(* Progress of generate_news_meme.                                         *)
(***************************************************************************)
\* The event loop runs a handler whose request has arrived, and resumes it
\* when the fetch it awaits settles; every fetch settles, with a response or a
\* transport error.
Fairness ==
  \A i \in Invocations :
    /\ WF_vars(Dispatch(i))
    /\ WF_vars(NewsResponse(i))
    /\ WF_vars(TemplatesResponse(i))
    /\ WF_vars(GeminiResponse(i))
    /\ WF_vars(ImgflipResponse(i))

InitLive ==
  /\ env \in Envs
  /\ \E rq \in WorkflowRequests :
       /\ frontend = [i \in Invocations |-> IF i = 1 THEN rq.frontend ELSE "index"]
       /\ tool = [i \in Invocations |-> IF i = 1 THEN rq.tool ELSE UnknownTool]
       /\ args = [i \in Invocations |-> IF i = 1 THEN rq.args ELSE NoArgs]
  /\ pc = [i \in Invocations |-> IF i = 1 THEN "start" ELSE "idle"]
  /\ inflight = [i \in Invocations |-> NoRequest]
  /\ locals = [i \in Invocations |-> NoLocals]
  /\ response = [i \in Invocations |-> NoResponse]
  /\ log = [i \in Invocations |-> <<>>]
  /\ stepError = [i \in Invocations |-> NoError]

SpecLive == InitLive /\ [][Next]_vars /\ Fairness

(***************************************************************************)
(* Observations used by the properties.                                    *)
(***************************************************************************)
Done(i) == pc[i] = "done"

Failed(i) ==
  /\ Done(i)
  /\ IF frontend[i] = "index"
     THEN response[i].content[1].text.fmt = "plain"
     ELSE ~response[i].json.success

Succeeded(i) == Done(i) /\ ~Failed(i)

\* The payload of a success, the message of a failure (index.ts labels the
\* message with "Error: ").
Payload(i) ==
  IF frontend[i] = "index" THEN response[i].content[1].text.value ELSE response[i].json

ErrorMessage(i) ==
  IF frontend[i] = "index"
  THEN Tail(response[i].content[1].text.parts)
  ELSE response[i].json.error

CallsTo(i, ep) == SelectSeq(log[i], LAMBDA x : x.ev = "call" /\ x.ep = ep)
Calls(i) == SelectSeq(log[i], LAMBDA x : x.ev = "call")
Returns(i) == SelectSeq(log[i], LAMBDA x : x.ev = "ret")
EnvMissing == Len(MissingKeys(env)) > 0
IsWorkflow(i) == pc[i] # "idle" /\ tool[i] = "generate_news_meme"

(***************************************************************************)
(* Properties.                                                             *)
(***************************************************************************)

\* C1: whenever a required credential is missing or empty, every one of the
\* five operations, on both front-ends, ends in failure without having issued
\* an upstream call.
C1_MissingCredentialAborts ==
  \A i \in Invocations :
    (pc[i] \in {"await", "done"} /\ tool[i] \in Tools /\ EnvMissing)
      => (Failed(i) /\ Len(Calls(i)) = 0)

\* C2: the upstream calls of one generate_news_meme invocation are made in the
\* order news, templates, gemini, imgflip; every call but the first directly
\* follows the successful return of the call before it; calls and returns
\* alternate, so at most one call is outstanding at any moment.
C2_WorkflowCallsInOrder ==
  \A i \in Invocations :
    IsWorkflow(i) =>
      /\ Len(Calls(i)) <= Len(Endpoints)
      /\ \A k \in 1 .. Len(Calls(i)) : Calls(i)[k].ep = Endpoints[k]
      /\ \A k \in 1 .. Len(log[i]) :
           /\ log[i][k].ev = (IF k % 2 = 1 THEN "call" ELSE "ret")
           /\ log[i][k].ev = "ret" => log[i][k].ep = log[i][k - 1].ep
           /\ (log[i][k].ev = "call" /\ k > 1) => log[i][k - 1].ok
      /\ Len(Calls(i)) - Len(Returns(i)) = (IF pc[i] = "await" THEN 1 ELSE 0)
      /\ pc[i] = "await" => inflight[i] = log[i][Len(log[i])].req

C2_Witness ==
  \E i \in Invocations :
    IsWorkflow(i) /\ Succeeded(i) /\ Len(Calls(i)) = 4 /\ Len(Returns(i)) = 4

\* C3: a finished generate_news_meme carries either nothing but an error
\* message, or the selected article's title and description, the caption parsed
\* from the model's text and the renderer's URL (null when the renderer sent
\* none); it succeeds only when the renderer answered with success set.
C3_NoPartialResult ==
  \A i \in Invocations :
    (IsWorkflow(i) /\ Done(i)) =>
      IF Failed(i)
      THEN IF frontend[i] = "index"
           THEN response[i].content[1].text.value = NoPayload
           ELSE DOMAIN response[i].json = {"success", "error"}
      ELSE /\ Len(Returns(i)) = 4
           /\ LET items == Returns(i)[1].resp.body.results.items
                  chosen == items[ArticleIndexOf(args[i]).n + 1]
                  output == Returns(i)[3].resp.body.text
                  rendered == Returns(i)[4].resp
                  p == Payload(i)
              IN  /\ DOMAIN p = {"success", "article", "caption", "memeUrl"}
                  /\ p.success
                  /\ p.article = [title |-> chosen.title, description |-> chosen.description]
                  /\ p.article.title # "" /\ p.article.description # ""
                  /\ p.caption = parseMemeCaption(output).val
                  /\ p.caption.t = "caption"
                  /\ rendered.kind = "body" /\ rendered.body.success
                  /\ p.memeUrl = IF rendered.body.hasData /\ rendered.body.url # ""
                                 THEN JsString(rendered.body.url)
                                 ELSE JsNull

C3_Witness ==
  \E i \in Invocations :
    /\ IsWorkflow(i) /\ Succeeded(i)
    /\ Payload(i).memeUrl = JsString("https://i.imgflip.com/2.jpg")
    /\ Payload(i).caption = Caption(102, "TOP", "BOTTOM")
    /\ Payload(i).article.title = "T2"

\* The error a client function throws for a response, as the code builds it.
ClientResult(ep, r) ==
  CASE ep = "news" -> getIndianNewsByTopic(r)
    [] ep = "templates" -> fetchImgflipTemplates(r)
    [] ep = "gemini" -> generateCaption(r)
    [] OTHER -> generateMeme(r)

\* C4: when a step of generate_news_meme fails, the workflow fails and its
\* message is the workflow prefix followed by the step's whole message; a
\* workflow that succeeded had no failing step.
C4_InnerErrorWrapped ==
  \A i \in Invocations :
    (IsWorkflow(i) /\ Done(i)) =>
      /\ stepError[i] # NoError =>
           (Failed(i) /\ ErrorMessage(i) = <<WorkflowPrefix>> \o stepError[i])
      /\ \A k \in 1 .. Len(log[i]) :
           (log[i][k].ev = "ret" /\ ~log[i][k].ok) =>
             /\ stepError[i] = ClientResult(log[i][k].ep, log[i][k].resp).err
             /\ Failed(i)
      /\ Succeeded(i) => stepError[i] = NoError

C4_Witness ==
  \E i \in Invocations :
    /\ IsWorkflow(i) /\ Failed(i)
    /\ Len(Returns(i)) = 3 /\ ~Returns(i)[3].ok
    /\ ErrorMessage(i) =
         <<WorkflowPrefix, "Failed to generate caption: ", "Gemini API error: ",
           "500", " ", "Internal Server Error">>

\* C5: within one invocation every upstream endpoint is called at most once,
\* and a call that failed is followed by no other call: the invocation has
\* failed.
C5_NoRetry ==
  \A i \in Invocations :
    /\ \A k \in 1 .. Len(Endpoints) : Len(CallsTo(i, Endpoints[k])) <= 1
    /\ \A k \in 1 .. Len(log[i]) :
         (log[i][k].ev = "ret" /\ ~log[i][k].ok) => (k = Len(log[i]) /\ Failed(i))

C5_Witness ==
  \E i \in Invocations :
    /\ Failed(i)
    /\ Len(log[i]) = 2
    /\ log[i][2].resp = Rejected
    /\ Len(CallsTo(i, "news")) = 1

\* C6: an upstream call that failed for a network problem is attempted again
\* before the operation reports failure.
C6_NetworkFailureRetried ==
  \A i \in Invocations :
    \A k \in 1 .. Len(log[i]) :
      (Done(i) /\ log[i][k].ev = "ret" /\ log[i][k].resp = Rejected)
        => Len(CallsTo(i, log[i][k].ep)) >= 2

\* C7: fetch_indian_news never returns more than 10 articles, whatever the
\* news search answers.
C7_AtMostTenArticles ==
  \A i \in Invocations :
    (tool[i] = "fetch_indian_news" /\ Succeeded(i)) =>
      (Len(Payload(i).articles) <= NewsSize /\ Payload(i).count <= NewsSize)

\* A body with a success status that has no usable results array.
Malformed(body) == body.t # "obj" \/ body.results.t # "arr"

\* C8: a news-search response with a success status and a malformed payload
\* (no results, results that are no array, no object at all) gives an empty
\* list and no failure.
C8_MalformedGivesEmptyList ==
  \A i \in Invocations :
    (/\ tool[i] = "fetch_indian_news"
     /\ Done(i)
     /\ Len(log[i]) = 2
     /\ log[i][2].resp.kind = "body"
     /\ Malformed(log[i][2].resp.body))
      => (/\ Succeeded(i)
          /\ Payload(i).articles = <<>>
          /\ Payload(i).count = 0)

\* The news fetch returned the list items (empty for a malformed body).
FetchedItems(i) ==
  LET r == Returns(i)[1].resp
  IN  IF Malformed(r.body) THEN <<>> ELSE r.body.results.items

NewsFetched(i) == Len(Returns(i)) >= 1 /\ Returns(i)[1].ok

\* C9: when the news fetch of generate_news_meme returns an empty list, the
\* workflow fails with "No news articles found" and calls neither the template
\* catalog nor the generative model nor the renderer.
C9_NoArticlesFails ==
  \A i \in Invocations :
    (IsWorkflow(i) /\ NewsFetched(i) /\ Len(FetchedItems(i)) = 0) =>
      /\ Failed(i)
      /\ Contains(ErrorMessage(i), "No news articles found")
      /\ Len(Calls(i)) = 1

C9_Witness ==
  \E i \in Invocations :
    /\ IsWorkflow(i) /\ NewsFetched(i) /\ Failed(i)
    /\ Returns(i)[1].resp = Body(NewsObject(ResultsArray(<<>>)))

\* The requested index names an element of the list.
Resolves(idx, items) == idx.t = "int" /\ 0 <= idx.n /\ idx.n < Len(items)

Unusable(item) == item.t # "obj" \/ item.title = "" \/ item.description = ""

\* C10: when the fetched list is not empty and the requested articleIndex
\* names none of its elements, or names one without a title or description,
\* generate_news_meme fails with "Selected article missing title or
\* description" and makes no template, caption or render call.
C10_BadSelectionFails ==
  \A i \in Invocations :
    (/\ IsWorkflow(i) /\ NewsFetched(i) /\ Len(FetchedItems(i)) > 0
     /\ LET idx == ArticleIndexOf(args[i])
        IN  \/ ~Resolves(idx, FetchedItems(i))
            \/ Unusable(FetchedItems(i)[idx.n + 1]))
      => /\ Failed(i)
         /\ ErrorMessage(i) = <<WorkflowPrefix, "Selected article missing title or description">>
         /\ Len(Calls(i)) = 1

C10_Witness ==
  \E i \in Invocations :
    /\ IsWorkflow(i) /\ NewsFetched(i) /\ Failed(i)
    /\ Len(FetchedItems(i)) = 1
    /\ FetchedItems(i)[1] = Article("T1", "D1")
    /\ args[i].articleIndex = IndexInt(1)

\* The text the generative model answered with, when it answered with a body.
ModelOutput(ret) == IF ret.resp.kind = "body" THEN OutputOf(ret.resp.body) ELSE <<>>

\* Caption generation returned "no caption": the answer had no candidate text,
\* or the parser gave null for the text.
NoCaption(i) ==
  /\ Len(Returns(i)) >= 3
  /\ Returns(i)[3].ok
  /\ generateCaption(Returns(i)[3].resp).val.t = "null"

\* C11: when caption generation of generate_news_meme yields no caption, the
\* workflow fails with "Failed to generate meme caption" and the renderer is
\* not called.
C11_NoCaptionFails ==
  \A i \in Invocations :
    (IsWorkflow(i) /\ NoCaption(i)) =>
      /\ Failed(i)
      /\ Contains(ErrorMessage(i), "Failed to generate meme caption")
      /\ Len(CallsTo(i, "imgflip")) = 0

C11_Witness ==
  \E i \in Invocations :
    /\ IsWorkflow(i) /\ NoCaption(i) /\ Failed(i)
    /\ ModelOutput(Returns(i)[3]) = <<Prose>>

\* C12: whatever text the generative model returns, the caption parser gives a
\* caption or null and raises nothing: generate_meme_caption, which hands the
\* parser's result to the caller, succeeds for every answer that carries text.
C12_ParserTotal ==
  \A i \in Invocations :
    (/\ pc[i] # "idle" /\ tool[i] = "generate_meme_caption"
     /\ Len(Returns(i)) = 1
     /\ Len(ModelOutput(Returns(i)[1])) > 0)
      => /\ Returns(i)[1].ok
         /\ Succeeded(i)
         /\ Payload(i).caption.t \in {"null", "caption"}

C12_Witness ==
  \E i \in Invocations :
    /\ tool[i] = "generate_meme_caption" /\ Succeeded(i)
    /\ ModelOutput(Returns(i)[1]) = <<JsonText(JsonNull)>>
    /\ Payload(i).caption = NullCaption

ConfigPrefix == "Missing required environment variables: "

\* What follows the fragment frag in a message (empty when frag is not in it).
RECURSIVE After(_, _)
After(msg, frag) ==
  IF Len(msg) = 0 THEN <<>>
  ELSE IF Head(msg) = frag THEN Tail(msg)
  ELSE After(Tail(msg), frag)

ConfigFailure(i) == Failed(i) /\ Contains(ErrorMessage(i), ConfigPrefix)

\* The keys a configuration failure message lists.
ListedKeys(i) ==
  LET list == After(ErrorMessage(i), ConfigPrefix)
  IN  {list[k] : k \in 1 .. Len(list)} \ {", "}

\* C13: a configuration failure message lists exactly the required keys that
\* are missing or empty, every one of them and no other.
C13_NamesEveryMissingKey ==
  \A i \in Invocations :
    ConfigFailure(i) =>
      /\ EnvMissing
      /\ ListedKeys(i) = {key \in RequiredKeys : env[key] = ""}
      /\ Len(After(ErrorMessage(i), ConfigPrefix))
           = 2 * Cardinality(ListedKeys(i)) - 1

C13_Witness ==
  \E i \in Invocations :
    /\ ConfigFailure(i)
    /\ ListedKeys(i) = {"GEMINI_API_KEY", "IMGFLIP_USERNAME", "IMGFLIP_PASSWORD"}

\* The object the caller reads the outcome from: the JSON body of the REST
\* response, the JSON document in the text of the tool result.  A tool result
\* whose text is not JSON has no such object.
HasEnvelope(i) ==
  IF frontend[i] = "index"
  THEN response[i].content[1].text.fmt = "json"
  ELSE response[i].t = "http"

HasSuccessIndicator(i) == HasEnvelope(i) /\ "success" \in DOMAIN Payload(i)

\* C14: every finished invocation of every operation, failures included,
\* answers in the envelope of the successes: an object with a success
\* indicator, which is false on failure and then comes with an error message.
C14_UniformEnvelope ==
  \A i \in Invocations :
    Done(i) =>
      /\ response[i] # NoResponse
      /\ HasSuccessIndicator(i)
      /\ Failed(i) => (~Payload(i).success /\ Len(Payload(i).error) > 0)

\* What does hold: every finished invocation has a response, no exception
\* leaves the handler, and the REST front-end keeps the envelope.
C14_RestEnvelope ==
  \A i \in Invocations :
    Done(i) =>
      /\ response[i] # NoResponse
      /\ Failed(i) => Len(ErrorMessage(i)) > 0
      /\ (frontend[i] = "app" \/ Succeeded(i)) => HasSuccessIndicator(i)

\* What the caller is told, without the transport around it: success with a
\* payload or failure with a message.
Outcome(i) ==
  IF Failed(i)
  THEN [success |-> FALSE, error |-> ErrorMessage(i), payload |-> NoPayload]
  ELSE [success |-> TRUE, error |-> <<>>, payload |-> Payload(i)]

\* C15: index.ts and app.ts, given the same tool, arguments, environment and
\* upstream responses, make the same upstream calls and report the same
\* outcome.
C15_FrontEndsAgree ==
  (Done(1) /\ Done(2)) =>
    /\ Calls(1) = Calls(2)
    /\ Outcome(1) = Outcome(2)

\* Apart from get_meme_templates with a credential missing, the two agree.
C15_AgreeWhenValidated ==
  (Done(1) /\ Done(2) /\ ~(EnvMissing /\ tool[1] = "get_meme_templates")) =>
    /\ Calls(1) = Calls(2)
    /\ Outcome(1) = Outcome(2)

\* The handler run by itself from its first statement over the responses rets,
\* as far as they go: the call it is suspended on, or its result.
RECURSIVE Replay(_, _, _, _, _)
Replay(out, toolName, a, e, rets) ==
  IF out.kind = "finish" \/ Len(rets) = 0 THEN out
  ELSE Replay(Continue(toolName, a, e, out.request.ep, out.locals, Head(rets).resp),
              toolName, a, e, Tail(rets))

RunAlone(i) ==
  Replay(Begin(frontend[i], tool[i], args[i], env), tool[i], args[i], env, Returns(i))

\* C16: under every interleaving of the steps of concurrent invocations, each
\* invocation is where it would be, with the locals and the response it would
\* have, had it run alone with its arguments and the responses to its own
\* calls.
C16_NoSharedState ==
  \A i \in Invocations :
    pc[i] \in {"await", "done"} =>
      LET alone == RunAlone(i)
      IN  IF alone.kind = "call"
          THEN /\ pc[i] = "await"
               /\ inflight[i] = alone.request
               /\ locals[i] = alone.locals
          ELSE /\ Done(i)
               /\ response[i] = Respond(frontend[i], alone.result)

\* One invocation has answered with its article, caption and URL while the
\* other, holding a different article and caption, still waits for its meme.
C16_Witness ==
  /\ Succeeded(1)
  /\ pc[2] = "await" /\ inflight[2].ep = "imgflip"
  /\ [title |-> locals[2].article.title,
      description |-> locals[2].article.description] # Payload(1).article
  /\ locals[2].caption # Payload(1).caption

\* The text parses to a JSON object whose image, topText and bottomText are
\* truthy and whose image converts to a number.
ValidCaptionJson(text) ==
  LET parsed == JsonParse(Cleaned(text))
  IN  /\ parsed.ok
      /\ parsed.val.t = "obj"
      /\ TruthyImage(parsed.val.image)
      /\ TruthyText(parsed.val.topText)
      /\ TruthyText(parsed.val.bottomText)
      /\ ~parsed.val.image.nan

\* generate_meme_caption has answered with what the parser made of a text.
Parsed(i) ==
  /\ tool[i] = "generate_meme_caption"
  /\ Succeeded(i)
  /\ Len(ModelOutput(Returns(i)[1])) > 0

\* C17: the parser yields a caption exactly when the parsed object has image,
\* topText and bottomText truthy and an image that converts to a number, and
\* every caption it yields has a numeric image and non-empty topText and
\* bottomText.
C17_CaptionWellFormed ==
  \A i \in Invocations :
    Parsed(i) =>
      LET caption == Payload(i).caption
      IN  /\ caption.t = "caption" <=> ValidCaptionJson(ModelOutput(Returns(i)[1]))
          /\ caption.t = "caption" =>
               /\ caption.image \in Int
               /\ caption.topText # ""
               /\ caption.bottomText # ""

\* The part that holds: a caption exactly for the valid objects, with a
\* numeric image.
C17_YieldsOnlyWhenValid ==
  \A i \in Invocations :
    Parsed(i) =>
      LET caption == Payload(i).caption
      IN  /\ caption.t = "caption" <=> ValidCaptionJson(ModelOutput(Returns(i)[1]))
          /\ caption.t = "caption" => caption.image \in Int

\* The caption the workflow's generator call came back with.
GeneratedCaption(i) == generateCaption(Returns(i)[3].resp).val

\* The ids the workflow offered to the generative model.
OfferedIds(i) ==
  LET ids == CallsTo(i, "gemini")[1].req.ids
  IN  {ids[k] : k \in 1 .. Len(ids)}

\* C18: in generate_news_meme every parsed caption goes on to the renderer
\* with its image id unchanged, whether or not the id is one of the fetched
\* template ids.
C18_TemplateIdNotVerified ==
  \A i \in Invocations :
    (/\ IsWorkflow(i)
     /\ Len(Returns(i)) >= 3
     /\ Returns(i)[3].ok
     /\ GeneratedCaption(i).t = "caption")
      => /\ Len(CallsTo(i, "imgflip")) = 1
         /\ CallsTo(i, "imgflip")[1].req.template_id = GeneratedCaption(i).image

C18_Witness ==
  \E i \in Invocations :
    /\ IsWorkflow(i)
    /\ Len(CallsTo(i, "imgflip")) = 1
    /\ OfferedIds(i) # {}
    /\ CallsTo(i, "imgflip")[1].req.template_id \notin OfferedIds(i)

\* C19: no prompt goes to the generative model with an empty list of template
\* ids, from generate_news_meme or from generate_meme_caption.
C19_NonEmptyTemplateIds ==
  \A i \in Invocations :
    \A k \in 1 .. Len(CallsTo(i, "gemini")) :
      Len(CallsTo(i, "gemini")[k].req.ids) > 0

\* The two ways to an empty list: the catalog came back with no entries; the
\* caller passed an empty array.
C19_NeverFromEmptyCatalog ==
  \A i \in Invocations :
    IsWorkflow(i) => \A k \in 1 .. Len(CallsTo(i, "gemini")) :
                       Len(CallsTo(i, "gemini")[k].req.ids) > 0

C19_NeverFromEmptyArgument ==
  \A i \in Invocations :
    tool[i] = "generate_meme_caption" =>
      \A k \in 1 .. Len(CallsTo(i, "gemini")) :
        Len(CallsTo(i, "gemini")[k].req.ids) > 0

\* C20: every generate_news_meme invocation that has started comes to deliver
\* a response, and the response it has delivered is never replaced by another.
C20_WorkflowResponds ==
  /\ \A i \in Invocations :
       (IsWorkflow(i) /\ pc[i] = "start") ~> (Done(i) /\ response[i] # NoResponse)
  /\ [][\A i \in Invocations :
          response[i] # NoResponse => response'[i] = response[i]]_vars

\* Step by step: an invocation without a response is about to run or waits
\* for exactly one call; an invocation with a response is done.
C20_NeverStuck ==
  \A i \in Invocations :
    IsWorkflow(i) =>
      \/ pc[i] = "start" /\ response[i] = NoResponse
      \/ pc[i] = "await" /\ response[i] = NoResponse /\ inflight[i] # NoRequest
      \/ Done(i) /\ response[i] # NoResponse /\ inflight[i] = NoRequest

C20_Witness ==
  \E i \in Invocations :
    /\ IsWorkflow(i) /\ Failed(i)
    /\ Len(Returns(i)) = 4
====
